---- MODULE Spec2Model ----
(***************************************************************************)
(* Model of the arena-backed string interner of src/src/lib.rs.            *)
(*                                                                         *)
(* A string is a sequence of bytes.  A String buffer is a record           *)
(*   [id, cap, bytes]: the identity of its heap allocation, its capacity   *)
(* and its used bytes (len = Len(bytes)).  A &'static str view is a record *)
(*   [buf, start, len]: the allocation it points into and the byte range.  *)
(* A Lexicon is a record [map, vec, buf, all]; map is the set of           *)
(* (key view, Sym) entries of the HashMap, looked up by content.           *)
(***************************************************************************)
EXTENDS Integers, Sequences, FiniteSets, TLC

VARIABLES
    map,      \* Lexicon.map : HashMap<&'static str, Sym>
    vec,      \* Lexicon.vec : Vec<&'static str>
    buf,      \* Lexicon.buf : String (the active buffer)
    all,      \* Lexicon.all : Vec<String> (the retired buffers)
    others,   \* buffers owned by the Lexicon values this one was cloned from
    clones,   \* number of clone() calls made so far
    loop,     \* letters init_with_alphabet has still to intern
    debug,    \* cfg(debug_assertions) of the build
    last,     \* the last call observed: [op, str, sym, panic]
    first,    \* per distinct string, in order of its first intern call,
              \* the string and the identifier that call returned
    twin      \* a second Lexicon given the same calls: [lex, last]

vars == <<map, vec, buf, all, others, clones, loop, debug, last, first, twin>>

----------------------------------------------------------------------------
(* Bounds and inputs *)

MaxCap == 4
MaxClones == 1

\* "", "a", "b", "ab" and the two-byte character U+00E9 (0xC3 0xA9)
Strings == { <<>>, <<97>>, <<98>>, <<97, 98>>, <<195, 169>> }

\* What a read through a view into a freed or moved allocation yields.
Garbage == << -1 >>

Max(a, b) == IF a >= b THEN a ELSE b

Range(s) == { s[i] : i \in DOMAIN s }

----------------------------------------------------------------------------
(* Sym *)

\* `n as u32`: the low 32 bits, taken as two 16-bit halves
AsU32(n) == ((n \div 65536) % 65536) * 65536 + (n % 65536)

Sym_new(n) == n

Sym_get(sym) == sym

\* Integers beyond 31 bits are written in 16-bit halves, least significant
\* first: a u32 as <<h0, h1>>, a 64-bit usize as <<h0, h1, h2, h3>>.
Halves == {0, 1, 65535}

U32Values == { <<h0, h1>> : h0 \in Halves, h1 \in Halves }

UsizeValues ==
    { <<h0, h1, h2, h3>> : h0 \in Halves, h1 \in Halves,
                           h2 \in Halves, h3 \in Halves }

\* a u32 read as a usize
Widen(u) == <<u[1], u[2], 0, 0>>

\* mutant: the cast keeps 16 bits, `n as u16 as u32`
AsU32Wide_u16(n) == <<n[1], 0>>

\* `n as u32` of a usize n: the low 32 bits
AsU32Wide(n) == <<n[1], n[2]>>

\* impl From<Sym> for u32
u32_from_Sym(sym) == sym

\* impl From<usize> for Sym
Sym_from_usize(n) == Sym_new(AsU32Wide(n))

----------------------------------------------------------------------------
(* String buffers and views *)

RECURSIVE Pow2From(_, _)
Pow2From(n, p) == IF p >= n THEN p ELSE Pow2From(n, 2 * p)

\* usize::next_power_of_two: the smallest power of two >= n (1 for 0)
next_power_of_two(n) == Pow2From(n, 1)

\* String::with_capacity(cap), allocated at address id
String_with_capacity(id, cap) == [id |-> id, cap |-> cap, bytes |-> <<>>]

\* String::clone: a new allocation holding exactly the used bytes
String_clone(id, s) == [id |-> id, cap |-> Len(s.bytes), bytes |-> s.bytes]

Self == [map |-> map, vec |-> vec, buf |-> buf, all |-> all]

OwnBuffers(self) == {self.buf} \cup Range(self.all)

\* a fresh allocation address
NewBufId(self) ==
    LET ids == { b.id : b \in OwnBuffers(self) \cup others }
    IN  1 + CHOOSE m \in ids : \A i \in ids : i <= m

\* mutant: the buffer is overwritten with the new string
push_str_overwrite(self, s, string) == [s EXCEPT !.bytes = string]

\* String::push_str: appends in place while the capacity suffices, and
\* otherwise reallocates (amortised growth), which moves the allocation.
push_str(self, s, string) ==
    IF Len(s.bytes) + Len(string) <= s.cap
    THEN [s EXCEPT !.bytes = s.bytes \o string]
    ELSE [id    |-> NewBufId(self),
          cap   |-> Max(Max(2 * s.cap, Len(s.bytes) + Len(string)), 8),
          bytes |-> s.bytes \o string]

\* reading the bytes a view refers to
Deref(self, view) ==
    LET live == { b \in OwnBuffers(self) \cup others : b.id = view.buf }
    IN  IF live = {} THEN Garbage
        ELSE LET b == CHOOSE x \in live : TRUE
             IN  IF view.start + view.len <= Len(b.bytes)
                 THEN SubSeq(b.bytes, view.start + 1, view.start + view.len)
                 ELSE Garbage

----------------------------------------------------------------------------
(* Lexicon *)

Lexicon_default ==
    [map |-> {}, vec |-> <<>>, buf |-> String_with_capacity(0, 0), all |-> <<>>]

with_capacity(capacity) ==
    LET cap == next_power_of_two(capacity)
    IN  [map |-> {}, vec |-> <<>>, buf |-> String_with_capacity(0, cap), all |-> <<>>]

\* self.map.get(string): the entries whose key has the content `string`
MapGet(self, string) == { e \in self.map : Deref(self, e.key) = string }

\* mutant: the entry is stored with the identifier after the one minted
MapInsert_off(self, key, sym) ==
    self.map \cup { [key |-> key, val |-> sym + 1] }

\* self.map.insert(key, sym): a key of equal content keeps its entry and
\* takes the new value
MapInsert(self, key, sym) ==
    LET same == { e \in self.map : Deref(self, e.key) = Deref(self, key) }
    IN  IF same = {}
        THEN self.map \cup { [key |-> key, val |-> sym] }
        ELSE (self.map \ same) \cup { [key |-> e.key, val |-> sym] : e \in same }

\* mutant: the identifier is minted one too high
NextSym_after(self) == Sym_new(AsU32(Cardinality(self.map) + 1))

\* mutant: the identifier is minted from the number of retired buffers
NextSym_retired(self) == Sym_new(AsU32(Len(self.all)))

\* Sym::new(self.map.len() as u32)
NextSym(self) == Sym_new(AsU32(Cardinality(self.map)))

\* mutant: the length of the new string is left out of the test
NeedsGrowth_nolen(self, string) ==
    self.buf.cap < Len(self.buf.bytes)

\* mutant: the test is <= instead of <
NeedsGrowth_le(self, string) ==
    self.buf.cap <= Len(self.buf.bytes) + Len(string)

NeedsGrowth(self, string) ==
    self.buf.cap < Len(self.buf.bytes) + Len(string)

\* mutant: the capacity is just doubled
NewCap_double(self, string) == 2 * self.buf.cap

\* mutant: the + 1 is left out
NewCap_noplus(self, string) ==
    next_power_of_two(Max(self.buf.cap, Len(string)))

NewCap(self, string) ==
    next_power_of_two(Max(self.buf.cap, Len(string)) + 1)

\* mutant: the old buffer is dropped instead of retired
Grow_drop(self, string) ==
    [self EXCEPT !.buf = String_with_capacity(NewBufId(self), NewCap(self, string))]

\* mem::replace(&mut self.buf, new_buf); self.all.push(old_buf)
Grow(self, string) ==
    [self EXCEPT !.buf = String_with_capacity(NewBufId(self), NewCap(self, string)),
                 !.all = Append(self.all, self.buf)]

\* mutant: the view covers the whole buffer, &self.buf[..]
Interned_whole(self, start) ==
    [buf |-> self.buf.id, start |-> 0, len |-> Len(self.buf.bytes)]

\* the view &self.buf[start..] of the bytes pushed at `start`
Interned(self, start) ==
    [buf |-> self.buf.id, start |-> start, len |-> Len(self.buf.bytes) - start]

\* mutant: the bytes that still fit go to the old buffer, the rest to the
\* new one
alloc_split(self, string) ==
    LET room == self.buf.cap - Len(self.buf.bytes)
        head == SubSeq(string, 1, room)
        tail == SubSeq(string, room + 1, Len(string))
        s0   == [self EXCEPT !.buf.bytes = self.buf.bytes \o head]
        s1   == Grow(s0, string)
        s2   == [s1 EXCEPT !.buf.bytes = tail]
        fits == [self EXCEPT !.buf.bytes = self.buf.bytes \o string]
    IN  IF NeedsGrowth(self, string)
        THEN [self |-> s2, ret |-> Interned(s2, 0)]
        ELSE [self |-> fits, ret |-> Interned(fits, Len(self.buf.bytes))]

alloc(self, string) ==
    LET s1    == IF NeedsGrowth(self, string) THEN Grow(self, string) ELSE self
        start == Len(s1.buf.bytes)
        s2    == [s1 EXCEPT !.buf = push_str(s1, s1.buf, string)]
    IN  [self |-> s2, ret |-> Interned(s2, start)]

\* mutant: get_unchecked, an out-of-range read returns whatever is there
lookup_unchecked(self, sym) ==
    IF Sym_get(sym) < Len(self.vec)
    THEN [panic |-> FALSE, str |-> Deref(self, self.vec[Sym_get(sym) + 1])]
    ELSE [panic |-> FALSE, str |-> Garbage]

lookup(self, sym) ==
    LET i == Sym_get(sym)
    IN  IF i < Len(self.vec)
        THEN [panic |-> FALSE, str |-> Deref(self, self.vec[i + 1])]
        ELSE [panic |-> TRUE, str |-> <<>>]

index(self, sym) == lookup(self, sym)

\* mutant: the reverse table is not updated
Record_mapOnly(self, string, sym) ==
    [self EXCEPT !.map = MapInsert(self, string, sym)]

\* the table updates of a miss: map.insert and vec.push
Record(self, string, sym) ==
    [self EXCEPT !.map = MapInsert(self, string, sym),
                 !.vec = Append(self.vec, string)]

\* mutant: a hit appends the found key to the reverse table again
Hit_push(self, id) ==
    [self  |-> [self EXCEPT !.vec = Append(self.vec, self.vec[id + 1])],
     ret   |-> id,
     panic |-> FALSE]

\* mutant: a hit returns the identifier after the stored one
Hit_next(self, id) == [self |-> self, ret |-> id + 1, panic |-> FALSE]

\* if let Some(&id) = self.map.get(string) { return id; }
Hit(self, id) == [self |-> self, ret |-> id, panic |-> FALSE]

RECURSIVE intern(_, _, _)
intern(self, string, dbg) ==
    LET hit == MapGet(self, string)
    IN  IF hit # {}
        THEN Hit(self, (CHOOSE e \in hit : TRUE).val)
        ELSE LET a    == alloc(self, string)
                 sym  == NextSym(a.self)
                 s1   == Record(a.self, a.ret, sym)
                 view == Deref(s1, a.ret)
                 l    == lookup(s1, sym)
                 r    == intern(s1, view, dbg)
             IN  IF ~dbg
                 THEN [self |-> s1, ret |-> sym, panic |-> FALSE]
                 ELSE IF l.panic \/ l.str # view
                 \* debug_assert!(self.lookup(sym) == string) fails
                 THEN [self |-> s1, ret |-> sym, panic |-> TRUE]
                 \* debug_assert!(self.intern(string) == sym): the call runs
                 \* on &mut self and what it does to the tables stays
                 ELSE [self |-> r.self, ret |-> sym,
                       panic |-> r.panic \/ r.ret # sym]

\* #[derive(Clone)]: the tables are copied as they are, each String is
\* copied into a new allocation
Lexicon_clone(self) ==
    LET base == NewBufId(self)
    IN  [map |-> self.map,
         vec |-> self.vec,
         buf |-> String_clone(base, self.buf),
         all |-> [i \in DOMAIN self.all |-> String_clone(base + i, self.all[i])]]

\* mutant: the two ranges are chained the other way round
Alphabet_upper_first ==
    [i \in 1..52 |-> IF i <= 26 THEN <<64 + i>> ELSE <<96 + (i - 26)>>]

\* ('a'..='z').chain('A'..='Z'), each as a one-byte string
Alphabet == [i \in 1..52 |-> IF i <= 26 THEN <<96 + i>> ELSE <<64 + (i - 26)>>]

----------------------------------------------------------------------------
(* The state machine *)

Install(self) ==
    /\ map' = self.map
    /\ vec' = self.vec
    /\ buf' = self.buf
    /\ all' = self.all

NoCall == [op |-> "new", str |-> <<>>, sym |-> 0, panic |-> FALSE]

\* no second Lexicon is run
NoTwin == [lex |-> Lexicon_default, last |-> NoCall]

Seen(string) == \E k \in DOMAIN first : first[k].str = string

InitWith(self) ==
    /\ map = self.map
    /\ vec = self.vec
    /\ buf = self.buf
    /\ all = self.all
    /\ others = {}
    /\ clones = 0
    /\ debug \in BOOLEAN
    /\ last = NoCall
    /\ first = <<>>

\* Lexicon::default() or Lexicon::with_capacity(c)
Init ==
    /\ \E self \in {Lexicon_default} \cup { with_capacity(c) : c \in 0..MaxCap } :
           InitWith(self)
    /\ loop = <<>>
    /\ twin = NoTwin

\* entry of init_with_alphabet
InitAlphabet ==
    /\ InitWith(Lexicon_default)
    /\ loop = Alphabet
    /\ twin = NoTwin

DoIntern(string, op) ==
    LET r == intern(Self, string, debug)
    IN  /\ Install(r.self)
        /\ last' = [op |-> op, str |-> string, sym |-> r.ret, panic |-> r.panic]
        /\ first' = IF Seen(string) THEN first
                    ELSE Append(first, [str |-> string, sym |-> r.ret])
        /\ UNCHANGED <<others, clones, debug>>

Intern ==
    /\ loop = <<>>
    /\ \E string \in Strings : DoIntern(string, "intern")
    /\ UNCHANGED <<loop, twin>>

Lookup ==
    /\ loop = <<>>
    /\ \E sym \in 0..(Len(vec) + 1) :
           LET r == lookup(Self, sym)
           IN  last' = [op |-> "lookup", str |-> r.str, sym |-> sym, panic |-> r.panic]
    /\ UNCHANGED <<map, vec, buf, all, others, clones, loop, debug, first, twin>>

Index ==
    /\ loop = <<>>
    /\ \E sym \in 0..(Len(vec) + 1) :
           LET r == index(Self, sym)
           IN  last' = [op |-> "index", str |-> r.str, sym |-> sym, panic |-> r.panic]
    /\ UNCHANGED <<map, vec, buf, all, others, clones, loop, debug, first, twin>>

\* one iteration of the loop of init_with_alphabet
AlphabetStep ==
    /\ loop # <<>>
    /\ DoIntern(Head(loop), "boot")
    /\ loop' = Tail(loop)
    /\ UNCHANGED twin

\* let c = lexicon.clone(); the variables describe c from here on, and
\* the source lexicon stays alive
Clone ==
    /\ loop = <<>>
    /\ clones < MaxClones
    /\ Install(Lexicon_clone(Self))
    /\ others' = others \cup OwnBuffers(Self)
    /\ clones' = clones + 1
    /\ last' = [op |-> "clone", str |-> <<>>, sym |-> 0, panic |-> FALSE]
    /\ UNCHANGED <<loop, debug, first, twin>>

\* two interners built with different capacity hints
InitTwin ==
    LET starts == {Lexicon_default} \cup { with_capacity(c) : c \in 0..MaxCap }
    IN  /\ \E self \in starts : InitWith(self)
        /\ \E self \in starts : twin = [lex |-> self, last |-> NoCall]
        /\ loop = <<>>

\* the same intern call on both
TwinIntern ==
    \E string \in Strings :
        LET r == intern(twin.lex, string, debug)
        IN  /\ DoIntern(string, "intern")
            /\ twin' = [lex  |-> r.self,
                        last |-> [op |-> "intern", str |-> string,
                                  sym |-> r.ret, panic |-> r.panic]]
            /\ UNCHANGED loop

\* the same lookup call on both
TwinLookup ==
    /\ \E sym \in 0..(Len(vec) + 1) :
           LET r == lookup(Self, sym)
               q == lookup(twin.lex, sym)
           IN  /\ last' = [op |-> "lookup", str |-> r.str, sym |-> sym,
                           panic |-> r.panic]
               /\ twin' = [twin EXCEPT !.last = [op |-> "lookup", str |-> q.str,
                                                 sym |-> sym, panic |-> q.panic]]
    /\ UNCHANGED <<map, vec, buf, all, others, clones, loop, debug, first>>

\* Sym::new(n).get()
SymNewGet ==
    /\ \E n \in U32Values :
           last' = [op |-> "Sym::new", arg |-> n, ret |-> Sym_get(Sym_new(n))]
    /\ UNCHANGED <<map, vec, buf, all, others, clones, loop, debug, first, twin>>

\* u32::from(Sym::new(n))
SymIntoU32 ==
    /\ \E n \in U32Values :
           last' = [op |-> "u32::from", arg |-> n, ret |-> u32_from_Sym(Sym_new(n))]
    /\ UNCHANGED <<map, vec, buf, all, others, clones, loop, debug, first, twin>>

\* Sym::from(n).get() for a usize n
SymFromUsize ==
    /\ \E n \in UsizeValues :
           last' = [op |-> "Sym::from", arg |-> n, ret |-> Sym_get(Sym_from_usize(n))]
    /\ UNCHANGED <<map, vec, buf, all, others, clones, loop, debug, first, twin>>

Next == Intern \/ Lookup \/ Index

NextSymConv == SymNewGet \/ SymIntoU32 \/ SymFromUsize

NextTwin == TwinIntern \/ TwinLookup

NextAlphabet == AlphabetStep \/ Intern \/ Lookup \/ Index

NextClone == Intern \/ Lookup \/ Index \/ Clone

Spec == Init /\ [][Next]_vars

SpecAlphabet == InitAlphabet /\ [][NextAlphabet]_vars

SpecClone == Init /\ [][NextClone]_vars

SpecTwin == InitTwin /\ [][NextTwin]_vars

SpecSym == Init /\ [][NextSymConv]_vars

----------------------------------------------------------------------------
(* Properties *)

InternCall == last.op \in {"intern", "boot"}

LookupCall == last.op \in {"lookup", "index"}

Returned(string) == [panic |-> FALSE, str |-> string]

\* C1 (round-trip): right after intern(s) returned id, lookup(id) returns
\* exactly the bytes of s, for every input string, the empty one included,
\* in every reachable interner state.
RoundTrip ==
    InternCall => /\ ~last.panic
                  /\ lookup(Self, last.sym) = Returned(last.str)

\* C1 witness: the two-byte character has just been interned into a buffer
\* installed by a growth, and lookup gives it back.
RoundTripWitness ==
    /\ last.op = "intern"
    /\ last.str = <<195, 169>>
    /\ Len(all) >= 1
    /\ vec[last.sym + 1].buf = buf.id
    /\ lookup(Self, last.sym).str = <<195, 169>>

\* C2 (growth stability): every identifier intern ever issued for a string
\* s still looks up to exactly s in every later state, however many
\* buffers have been retired since; its reverse-table slot and its map
\* entry are still there and unchanged.
GrowthStability ==
    \A k \in DOMAIN first :
        /\ lookup(Self, first[k].sym) = Returned(first[k].str)
        /\ first[k].sym < Len(vec)
        /\ \E e \in map : /\ e.key = vec[first[k].sym + 1]
                          /\ e.val = first[k].sym

\* C2 witness: two growths have happened and a non-empty string issued
\* before them lives in the first retired buffer.
GrowthStabilityWitness ==
    /\ Len(all) >= 2
    /\ \E k \in DOMAIN first :
           /\ first[k].str # <<>>
           /\ first[k].sym < Len(vec)
           /\ vec[first[k].sym + 1].buf = all[1].id
           /\ lookup(Self, first[k].sym).str = first[k].str

\* C3 (sequential assignment): on an interner that started empty, the k-th
\* distinct string interned received identifier k-1.
SequentialAssignment ==
    \A k \in DOMAIN first : first[k].sym = k - 1

\* C3 witness: a third distinct string has just been interned and got 2.
SequentialAssignmentWitness ==
    /\ last.op = "intern"
    /\ Len(first) = 3
    /\ first[3].str = last.str
    /\ last.sym = 2

\* C4 (idempotence): every intern call for a string returns the identifier
\* that the first intern call for that string returned.
Idempotence ==
    InternCall =>
        \E k \in DOMAIN first : /\ first[k].str = last.str
                                /\ first[k].sym = last.sym

\* C4 witness: the first string ever interned has just been interned again
\* after two other strings were interned in between.
IdempotenceWitness ==
    /\ last.op = "intern"
    /\ Len(first) >= 3
    /\ last.str = first[1].str
    /\ last.sym = first[1].sym

Views == Range(vec) \cup { e.key : e \in map }

Contents == Strings \cup { Deref(Self, v) : v \in Views }

VecHas(id, s) == id < Len(vec) /\ Deref(Self, vec[id + 1]) = s

MapHas(s, id) == \E e \in map : Deref(Self, e.key) = s /\ e.val = id

\* C6 (map/table consistency): the reverse table and the dedup map have the
\* same number of entries, and vec[id] = s exactly when map[s] = id.
MapTableConsistency ==
    /\ Len(vec) = Cardinality(map)
    /\ \A id \in 0..(Len(vec) + 1) : \A s \in Contents :
           VecHas(id, s) <=> MapHas(s, id)

\* C6 witness: three entries, the empty string among them, and a retired
\* buffer.
MapTableConsistencyWitness ==
    /\ Len(vec) = 3
    /\ Cardinality(map) = 3
    /\ Len(all) >= 1
    /\ \E id \in 0..2 : VecHas(id, <<>>) /\ MapHas(<<>>, id)

\* C7 (a hit is a pure read): an intern call for a string that is in the
\* dedup map returns the stored identifier and leaves the map, the reverse
\* table, the active buffer and the retired buffers unchanged.
HitIsPureRead ==
    [][ (InternCall' /\ MapGet(Self, last'.str) # {}) =>
            /\ UNCHANGED <<map, vec, buf, all>>
            /\ ~last'.panic
            /\ \E e \in MapGet(Self, last'.str) : last'.sym = e.val ]_vars

\* C7 witness: a string interned before the last growth has just been
\* interned again, and the tables hold exactly the strings seen.
HitIsPureReadWitness ==
    /\ last.op = "intern"
    /\ Len(first) >= 2
    /\ last.str = first[1].str
    /\ last.str # <<>>
    /\ vec[last.sym + 1].buf # buf.id
    /\ Len(vec) = Len(first)

\* C8 (view ownership): every view in the dedup map and the reverse table
\* of a Lexicon got from Default, with_capacity, intern and clone is a byte
\* range of that Lexicon's own active buffer or of one of its own retired
\* buffers (a view of no bytes reads nothing and is left aside).
ViewOwnership ==
    \A v \in Views :
        v.len > 0 =>
            \E b \in OwnBuffers(Self) : /\ b.id = v.buf
                                        /\ v.start + v.len <= Len(b.bytes)

\* C9 as stated (out-of-range lookup is unchecked): a lookup or an indexing
\* with an identifier not below the number of interned strings produces no
\* panic.
OutOfRangeUnchecked ==
    (LookupCall /\ last.sym >= Len(vec)) => ~last.panic

\* C9 amended (out-of-range lookup is checked): a lookup or an indexing
\* panics exactly when the identifier is not below the number of interned
\* strings, and then returns no string.
OutOfRangePanics ==
    LookupCall => /\ last.panic <=> (last.sym >= Len(vec))
                  /\ last.panic => last.str = <<>>
                  /\ ~last.panic => last.str = Deref(Self, vec[last.sym + 1])

\* C9 witness: indexing a non-empty interner with the first identifier
\* that was never issued has panicked.
OutOfRangePanicsWitness ==
    /\ last.op = "index"
    /\ Len(vec) >= 1
    /\ last.sym = Len(vec)
    /\ last.panic

\* C10 (bootstrap ordering): when init_with_alphabet returns, the interner
\* holds exactly the 52 strings a..z, A..Z, the i-th under identifier i-1,
\* built over several growths from capacity 0; from then on lookup(0) = "a",
\* lookup(1) = "b", lookup(25) = "z", lookup(26) = "A", lookup(51) = "Z".
BootstrapOrdering ==
    /\ (loop = <<>> /\ last.op = "boot") =>
           /\ Len(vec) = 52
           /\ Cardinality(map) = 52
           /\ Len(all) >= 2
           /\ all[1].cap = 0
           /\ \A i \in 1..52 : MapHas(Alphabet[i], i - 1)
    /\ loop = <<>> =>
           /\ \A i \in 1..52 : lookup(Self, i - 1) = Returned(Alphabet[i])
           /\ lookup(Self, 0).str = <<97>>
           /\ lookup(Self, 1).str = <<98>>
           /\ lookup(Self, 25).str = <<122>>
           /\ lookup(Self, 26).str = <<65>>
           /\ lookup(Self, 51).str = <<90>>
    /\ (LookupCall /\ last.sym < 52 /\ loop = <<>>) =>
           /\ ~last.panic
           /\ last.str = Alphabet[last.sym + 1]

\* C10 witness: init_with_alphabet has returned after five growths and
\* lookup(51) has given "Z".
BootstrapOrderingWitness ==
    /\ loop = <<>>
    /\ last.op = "lookup"
    /\ last.sym = 51
    /\ last.str = <<90>>
    /\ Len(vec) = 52
    /\ Len(all) = 5

\* C11 (the capacity hint does not affect results): two interners built
\* with any two capacity hints (or by Default) and given the same intern
\* and lookup calls return the same identifier from every intern and the
\* same string from every lookup, and hold the same strings under the same
\* identifiers.
CapacityIndependence ==
    /\ twin.last = last
    /\ \A id \in 0..(Len(vec) + 1) : lookup(twin.lex, id) = lookup(Self, id)

\* C11 witness: the two interners differ in capacity and in the number of
\* retired buffers, hold three strings, and a lookup has just returned.
CapacityIndependenceWitness ==
    /\ buf.cap # twin.lex.buf.cap
    /\ Len(all) # Len(twin.lex.all)
    /\ Len(vec) >= 3
    /\ last.op = "lookup"
    /\ ~last.panic
    /\ last.str # <<>>

\* C12 as stated (conversions preserve the numeric value): Sym::new(n).get()
\* and u32::from(Sym::new(n)) are n for every 32-bit n, and Sym::from(n).get()
\* is n for every usize n.
ConversionsPreserveValue ==
    /\ last.op \in {"Sym::new", "u32::from"} => last.ret = last.arg
    /\ last.op = "Sym::from" => Widen(last.ret) = last.arg

\* C12 amended: Sym::new(n).get() and u32::from(Sym::new(n)) are n for every
\* 32-bit n; Sym::from(n).get() is the low 32 bits of the usize n, which is
\* n exactly when n is below 2^32.
ConversionsKeepLow32 ==
    /\ last.op \in {"Sym::new", "u32::from"} => last.ret = last.arg
    /\ last.op = "Sym::from" =>
           /\ Len(last.ret) = 2
           /\ last.ret[1] = last.arg[1]
           /\ last.ret[2] = last.arg[2]
           /\ (Widen(last.ret) = last.arg) <=> (last.arg[3] = 0 /\ last.arg[4] = 0)

\* C12 witness: a usize with bit 32 set has been converted and only its low
\* 32 bits came back.
ConversionsKeepLow32Witness ==
    /\ last.op = "Sym::from"
    /\ last.arg = <<1, 65535, 1, 0>>
    /\ last.ret = <<1, 65535>>

IsPowerOfTwo(c) == \E k \in 0..16 : 2^k = c

\* c is the smallest power of two that is at least m
IsNextPowerOfTwo(c, m) ==
    /\ IsPowerOfTwo(c)
    /\ c >= m
    /\ \A d \in 1..(c - 1) : ~(IsPowerOfTwo(d) /\ d >= m)

\* the step is an intern call whose argument was not in the dedup map
Miss == InternCall' /\ MapGet(Self, last'.str) = {}

\* C13 (growth rule): on an intern miss for a string of length L, if
\* capacity - used >= L the string is appended to the active buffer and the
\* retired list is unchanged; otherwise the active buffer goes unmodified to
\* the end of the retired list, a new empty buffer of capacity
\* next_power_of_two(max(old capacity, L) + 1) is installed and the string
\* is appended to it at offset 0.
GrowthRule ==
    [][ Miss =>
          LET string == last'.str
              L      == Len(string)
              used   == Len(buf.bytes)
              view   == vec'[Len(vec')]
          IN  IF buf.cap - used >= L
              THEN /\ buf' = [buf EXCEPT !.bytes = buf.bytes \o string]
                   /\ all' = all
                   /\ view = [buf |-> buf.id, start |-> used, len |-> L]
              ELSE /\ all' = Append(all, buf)
                   /\ buf'.id \notin { b.id : b \in OwnBuffers(Self) }
                   /\ IsNextPowerOfTwo(buf'.cap, Max(buf.cap, L) + 1)
                   /\ buf'.bytes = string
                   /\ view = [buf |-> buf'.id, start |-> 0, len |-> L] ]_vars

\* C13 witness: a two-byte string did not fit a buffer of capacity 1 or 2,
\* which was retired, and sits alone in a new buffer of capacity 4.
GrowthRuleWitness ==
    /\ last.op = "intern"
    /\ Len(last.str) = 2
    /\ Len(all) >= 1
    /\ all[Len(all)].cap \in {1, 2}
    /\ Len(all[Len(all)].bytes) >= 1
    /\ buf.cap = 4
    /\ buf.bytes = last.str

IsPrefix(s, u) == Len(s) <= Len(u) /\ SubSeq(u, 1, Len(s)) = s

\* C14 (no in-place reallocation): used <= capacity for every buffer in
\* every state; an append leaves the active buffer's allocation and
\* capacity as they were and fits used + L into that capacity; a buffer
\* change is a retirement of the old active buffer as it was; a retired
\* buffer keeps its contents, used length and capacity and its place in
\* the retired list for good.
NoInPlaceReallocation ==
    /\ [](\A b \in OwnBuffers(Self) : Len(b.bytes) <= b.cap)
    /\ [][ /\ buf'.id = buf.id =>
                /\ buf'.cap = buf.cap
                /\ IsPrefix(buf.bytes, buf'.bytes)
                /\ Len(buf'.bytes) <= buf.cap
                /\ all' = all
           /\ buf'.id # buf.id =>
                /\ all' = Append(all, buf)
                /\ Len(buf'.bytes) <= buf'.cap
           /\ Len(all') >= Len(all)
           /\ \A i \in DOMAIN all : all'[i] = all[i] ]_vars

\* C14 witness: after two retirements an append has filled the active
\* buffer exactly to its capacity, and a retired buffer holds bytes.
NoInPlaceReallocationWitness ==
    /\ last.op = "intern"
    /\ last.str # <<>>
    /\ Len(all) >= 2
    /\ buf.cap >= 2
    /\ Len(buf.bytes) = buf.cap
    /\ Len(buf.bytes) > Len(last.str)
    /\ \E i \in DOMAIN all : Len(all[i].bytes) >= 1

RECURSIVE SumLen(_)
SumLen(views) ==
    IF views = {} THEN 0
    ELSE LET v == CHOOSE x \in views : TRUE
         IN  v.len + SumLen(views \ {v})

\* C15 (no split strings): the bytes of every interned string are one
\* contiguous range [start, start + L) of exactly one buffer, active or
\* retired, and every buffer holds nothing but whole interned strings, so
\* no string was begun in a buffer that could not take all of it.
NoSplitStrings ==
    /\ \A k \in DOMAIN first :
           /\ first[k].sym < Len(vec)
           /\ LET v    == vec[first[k].sym + 1]
                  home == { b \in OwnBuffers(Self) : b.id = v.buf }
              IN  /\ v.len = Len(first[k].str)
                  /\ Cardinality(home) = 1
                  /\ \A b \in home :
                         /\ v.start + v.len <= Len(b.bytes)
                         /\ SubSeq(b.bytes, v.start + 1, v.start + v.len)
                                = first[k].str
    /\ \A b \in OwnBuffers(Self) :
           Len(b.bytes) = SumLen({ v \in Range(vec) : v.buf = b.id })

\* C15 witness: the retired buffer had room left, and the two-byte string
\* that did not fit it lies whole at the start of the active buffer.
NoSplitStringsWitness ==
    /\ Len(all) >= 1
    /\ all[Len(all)].cap > Len(all[Len(all)].bytes)
    /\ Len(all[Len(all)].bytes) >= 1
    /\ \E v \in Range(vec) : v.buf = buf.id /\ v.start = 0 /\ v.len = 2

\* C16 (growth is sufficient and geometric): a growth for a pending string
\* of length L installs a buffer whose capacity exceeds L and exceeds the
\* retired buffer's capacity, at least doubling it when that capacity is a
\* power of two; the one growth takes the whole string; and in every state
\* the active buffer's capacity exceeds that of every retired buffer.
GrowthIsGeometric ==
    /\ [](\A i \in DOMAIN all : all[i].cap < buf.cap)
    /\ [][ buf'.id # buf.id =>
               /\ Miss
               /\ Len(all') = Len(all) + 1
               /\ all'[Len(all')].cap = buf.cap
               /\ buf'.cap > Len(last'.str)
               /\ buf'.cap > buf.cap
               /\ IsPowerOfTwo(buf.cap) => buf'.cap >= 2 * buf.cap
               /\ buf'.bytes = last'.str ]_vars

\* C16 witness: starting from capacity 0 the second growth has just
\* happened, retiring a buffer of capacity 2 for one of capacity 4.
GrowthIsGeometricWitness ==
    /\ last.op = "intern"
    /\ Len(all) = 2
    /\ all[1].cap = 0
    /\ all[2].cap = 2
    /\ buf.cap = 4
    /\ buf.bytes = last.str

\* C17 (the debug-only self-check is inert): for every string and every
\* reachable state, intern under debug assertions returns the same
\* identifier and leaves the same state as intern without them and does not
\* panic; the re-entrant intern call, made on the state right after the
\* insertion with the stored string, finds that string in the map (the hit
\* path, which calls nothing), returns the identifier just minted and
\* changes nothing.
DebugCheckIsInert ==
    /\ InternCall => ~last.panic
    /\ \A s \in Strings :
           LET rel    == intern(Self, s, FALSE)
               dbg    == intern(Self, s, TRUE)
               stored == Deref(rel.self, rel.self.vec[rel.ret + 1])
           IN  /\ dbg = rel
               /\ ~dbg.panic
               /\ MapGet(rel.self, stored) # {}
               /\ intern(rel.self, stored, TRUE)
                      = [self |-> rel.self, ret |-> rel.ret, panic |-> FALSE]

\* C17 witness: a debug build has just interned a new string into a buffer
\* installed for it, so both assertions ran, and intern returned.
DebugCheckIsInertWitness ==
    /\ debug
    /\ last.op = "intern"
    /\ ~last.panic
    /\ Len(all) >= 1
    /\ buf.bytes = last.str
    /\ last.sym = Len(vec) - 1
    /\ Len(vec) >= 2

RECURSIVE Flatten(_)
Flatten(seqs) ==
    IF seqs = <<>> THEN <<>> ELSE Head(seqs) \o Flatten(Tail(seqs))

\* the used bytes of the retired buffers in retirement order, then those
\* of the active buffer
ArenaBytes == Flatten([i \in DOMAIN all |-> all[i].bytes]) \o buf.bytes

Disjoint(v, w) ==
    \/ v.buf # w.buf
    \/ v.start + v.len <= w.start
    \/ w.start + w.len <= v.start

\* C18 (arena contents mirror insertion order): on an interner that
\* started empty, the used bytes of the retired buffers in retirement order
\* followed by those of the active buffer are the concatenation of the
\* distinct interned strings in identifier order; the used bytes total the
\* sum of the strings' lengths, and no two entries share a byte.
ArenaMirrorsInsertionOrder ==
    /\ Len(vec) = Len(first)
    /\ ArenaBytes = Flatten([k \in DOMAIN first |-> first[k].str])
    /\ ArenaBytes = Flatten([i \in DOMAIN vec |-> lookup(Self, i - 1).str])
    /\ Len(ArenaBytes) = SumLen(Range(vec))
    /\ \A i, j \in DOMAIN vec : i # j => Disjoint(vec[i], vec[j])

\* C18 witness: all five input strings are interned, six bytes in all,
\* spread over the active buffer and at least two retired ones.
ArenaMirrorsInsertionOrderWitness ==
    /\ Len(vec) = Cardinality(Strings)
    /\ Len(all) >= 2
    /\ Len(ArenaBytes) = 6
    /\ Len(buf.bytes) >= 1
    /\ \E i \in DOMAIN all : Len(all[i].bytes) >= 2

\* C19 (the empty string never grows the arena): an intern miss for the
\* empty string adds exactly one dedup-map entry and one reverse-table
\* entry, under the next sequential identifier, and leaves the active
\* buffer (contents, used length, capacity) and the retired list unchanged,
\* in every reachable state, a Default interner of capacity 0 included.
EmptyStringNeverGrows ==
    [][ (Miss /\ last'.str = <<>>) =>
            /\ buf' = buf
            /\ all' = all
            /\ ~last'.panic
            /\ last'.sym = Len(vec)
            /\ vec' = Append(vec, [buf |-> buf.id, start |-> Len(buf.bytes),
                                   len |-> 0])
            /\ map' = map \cup { [key |-> vec'[Len(vec')], val |-> Len(vec)] }
            /\ Cardinality(map') = Cardinality(map) + 1 ]_vars

\* C19 witness: the empty string is the only entry of a Default interner,
\* whose buffer still has capacity 0 and was never retired.
EmptyStringNeverGrowsWitness ==
    /\ last.op = "intern"
    /\ last.str = <<>>
    /\ last.sym = 0
    /\ Len(vec) = 1
    /\ vec[1].len = 0
    /\ buf.cap = 0
    /\ all = <<>>

====
